---------------------------- MODULE Spec2Model ----------------------------
(***************************************************************************)
(* Model of hand_return.py: the dependency-aware code extractor.           *)
(*                                                                         *)
(* Strings that the code inspects character by character (module names,   *)
(* paths, exclude patterns) are tuples of one-character strings, so that   *)
(* str.replace and the substring test `pattern in str(path)` are computed  *)
(* as the code computes them.  Symbol names are only compared for         *)
(* equality and are plain strings.  A text is the tuple of its lines       *)
(* (what text.split("\n") returns); a source line is the token             *)
(* <<file, statement index, line within the statement>>, the empty line   *)
(* is Blank.                                                               *)
(***************************************************************************)
EXTENDS Integers, Sequences, FiniteSets, TLC

VARIABLES
    exclude_patterns,   \* argument of extract_used_code
    exists,             \* the files present in the project tree
    known,              \* files whose content has been read at least once
    tree,               \* file -> content (fixed from the first read on)
    budget,             \* import statements the project may still contain
    run,                \* which invocation of extract_used_code is running
    pc,                 \* position in extract_used_code
    files_to_process,   \* the worklist of the running loop
    processed,          \* the processed set of the running loop
    discovered_files,   \* discover_files' result
    extracted_code,     \* ordered dict: sequence of [file, code]
    out,                \* the output artifact
    enqueued,           \* history: files appended to the worklist, pass 2
    touched,            \* history: files handed to the parser / extractors
    requested,          \* history: file -> the names its extraction used
    prev                \* history: what the previous invocation produced

vars == <<exclude_patterns, exists, known, tree, budget, run, pc,
          files_to_process, processed, discovered_files, extracted_code,
          out, enqueued, touched, requested, prev>>

(***************************************************************************)
(* Bounds of the model.                                                    *)
(***************************************************************************)
\* import statements in the whole project
MaxStmts == 3

\* import statements in a file that does not parse
MaxBrokenStmts == 1

(***************************************************************************)
(* Strings.                                                                *)
(***************************************************************************)
\* str.replace(x, y) for one-character x and y
Replace(s, x, y) == [i \in 1..Len(s) |-> IF s[i] = x THEN y ELSE s[i]]

\* p in s
IsSubstring(p, s) ==
    \E i \in 0..(Len(s) - Len(p)) : \A j \in 1..Len(p) : s[i + j] = p[j]

Front(s) == SubSeq(s, 1, Len(s) - 1)

Last(s) == s[Len(s)]

RECURSIVE Flatten(_)
Flatten(ss) == IF ss = <<>> THEN <<>> ELSE Head(ss) \o Flatten(Tail(ss))

Range(s) == {s[i] : i \in 1..Len(s)}

(***************************************************************************)
(* The project tree the extractor is run on.                               *)
(***************************************************************************)
ProjectDir == <<"/", "p">>

Entry == "main"

Files == {"main", "a", "b", "c", "os"}

\* the path of each file relative to the project root; b is a package
RelPath(f) ==
    CASE f = "main" -> <<"m", "a", "i", "n", ".", "p", "y">>
      [] f = "a"    -> <<"a", ".", "p", "y">>
      [] f = "b"    -> <<"b", "/", "_", "_", "i", "n", "i", "t", "_", "_", ".", "p", "y">>
      [] f = "c"    -> <<"c", ".", "p", "y">>
      [] f = "os"   -> <<"o", "s", ".", "p", "y">>

\* project_dir / rel
AbsPath(f) == ProjectDir \o <<"/">> \o RelPath(f)

Wild == "*"

Stmt(k, mod, names, name, inner) ==
    [k |-> k, mod |-> mod, names |-> names, name |-> name, inner |-> inner]

Import(mod) == Stmt("import", mod, <<>>, "", <<>>)
From(mod, names) == Stmt("from", mod, names, "", <<>>)
Assign == Stmt("assign", <<>>, <<>>, "", <<>>)
Def(name, inner) == Stmt("def", <<>>, <<>>, name, inner)
Other == Stmt("other", <<>>, <<>>, "", <<>>)

\* the module names import statements of the project use
ModA == <<"a">>
ModB == <<"b">>
ModC == <<"c">>
ModOs == <<"o", "s">>
ModZz == <<"z", "z">>

\* the import statements a file of the project may contain
ImportVocab ==
    {Import(m) : m \in {ModA, ModB, ModC, ModOs, ModZz}}
    \cup {From(ModA, ns) : ns \in {<<"foo">>, <<"nope", "bar">>}}

\* the statements that follow a file's imports: top-level assignments,
\* function/class definitions (with the definitions nested in them) and
\* other statements
Layout(f) ==
    CASE f = "main" -> <<Other>>
      [] f = "a"    -> <<Assign, Def("foo", <<>>), Def("bar", <<>>)>>
      [] f = "b"    -> <<Def("bar", <<"foo">>), Assign, Other>>
      [] f = "c"    -> <<Def("foo", <<>>)>>
      [] f = "os"   -> <<Def("foo", <<"bar">>), Def("bar", <<>>)>>

RECURSIVE SeqsUpTo(_, _)
SeqsUpTo(S, n) ==
    IF n = 0 THEN {<<>>}
    ELSE LET shorter == SeqsUpTo(S, n - 1)
         IN  shorter \cup {Append(s, x) : s \in {t \in shorter : Len(t) = n - 1}, x \in S}

\* a file's content: whether it parses, and its import statements
Content(ok, imps) == [ok |-> ok, imps |-> imps]

NoContent == Content(TRUE, <<>>)

\* the smaller of two numbers
Least(m, n) == IF m <= n THEN m ELSE n

\* the contents a file read for the first time may turn out to have: its
\* import statements, and whether the file as a whole parses
Contents(n) ==
    {Content(TRUE, s) : s \in SeqsUpTo(ImportVocab, n)}
    \cup {Content(FALSE, s) : s \in SeqsUpTo(ImportVocab, Least(n, MaxBrokenStmts))}

\* the top-level statements of file f, in source order
Body(f, c) == c.imps \o Layout(f)

Blank == <<"", 0, 0>>

\* the source lines of statement i of file f
StmtLines(f, st, i) == [j \in 1..(1 + Len(st.inner)) |-> <<f, i, j - 1>>]

\* content.splitlines()
FileLines(f, c) ==
    Flatten([i \in 1..Len(Body(f, c)) |-> StmtLines(f, Body(f, c)[i], i)])

\* f.read(): the file's lines, each ended by a newline
RawText(f, c) == FileLines(f, c) \o <<Blank>>

(***************************************************************************)
(* Strings as texts: a string is the tuple of the pieces split("\n")       *)
(* gives, so the empty string is <<Blank>> and "\n" is <<Blank, Blank>>.   *)
(***************************************************************************)
EmptyStr == <<Blank>>

Newline == <<Blank, Blank>>

\* the last piece of s and the first piece of t share a line
LineCat(x, y) == CASE x = Blank -> y [] y = Blank -> x

\* s + t
StrCat(s, t) == Front(s) \o <<LineCat(Last(s), Head(t))>> \o Tail(t)

\* '\n'.join(lines)
JoinLines(ls) == IF ls = <<>> THEN EmptyStr ELSE ls

RECURSIVE Join(_, _)
\* sep.join(parts)
Join(sep, parts) ==
    IF parts = <<>> THEN EmptyStr
    ELSE IF Len(parts) = 1 THEN parts[1]
    ELSE StrCat(StrCat(parts[1], sep), Join(sep, Tail(parts)))

\* s.splitlines()
SplitLines(s) == IF Last(s) = Blank THEN Front(s) ELSE s

(***************************************************************************)
(* The syntax tree of a file.                                              *)
(***************************************************************************)
\* node.lineno of top-level statement i
RECURSIVE LineNo(_, _)
LineNo(body, i) ==
    IF i = 1 THEN 1 ELSE LineNo(body, i - 1) + 1 + Len(body[i - 1].inner)

Node(st, lineno, end_lineno) ==
    [k |-> st.k, mod |-> st.mod, names |-> st.names, name |-> st.name,
     lineno |-> lineno, end_lineno |-> end_lineno]

\* tree.body
TopNodes(body) ==
    [i \in 1..Len(body) |->
        Node(body[i], LineNo(body, i), LineNo(body, i) + Len(body[i].inner))]

\* the definitions nested in top-level statement i
InnerNodes(body, i) ==
    [j \in 1..Len(body[i].inner) |->
        Node(Def(body[i].inner[j], <<>>), LineNo(body, i) + j, LineNo(body, i) + j)]

\* ast.walk(tree): breadth first, the top-level statements before what
\* is nested in them
Walk(body) ==
    TopNodes(body) \o Flatten([i \in 1..Len(body) |-> InnerNodes(body, i)])

\* a parser that gives up on no syntax error
ParsesIgnoringSyntax(f, ex, c) == f \in ex

\* open(file_path) and ast.parse succeed
Parses(f, ex, c) == f \in ex /\ c.ok

(***************************************************************************)
(* An insertion-ordered dict: a sequence of [key, val] with distinct keys. *)
(***************************************************************************)
DictHas(d, key) == \E i \in 1..Len(d) : d[i].key = key

DictGet(d, key) == d[CHOOSE i \in 1..Len(d) : d[i].key = key].val

\* d[key] = val
DictSet(d, key, val) ==
    IF DictHas(d, key)
    THEN [i \in 1..Len(d) |-> IF d[i].key = key THEN [key |-> key, val |-> val] ELSE d[i]]
    ELSE Append(d, [key |-> key, val |-> val])

Keys(d) == [i \in 1..Len(d) |-> d[i].key]

(***************************************************************************)
(* parse_imports_with_names                                                *)
(***************************************************************************)
\* a `from` statement replaces what was recorded for its module
ImportStepOverwrite(imports, node) ==
    IF node.k = "from"
    THEN IF node.mod # <<>> THEN DictSet(imports, node.mod, node.names) ELSE imports
    ELSE IF node.k = "import"
    THEN DictSet(imports, node.mod, <<Wild>>)
    ELSE imports

\* one iteration of the loop over ast.walk(tree)
ImportStep(imports, node) ==
    IF node.k = "from"
    THEN IF node.mod # <<>>
         THEN DictSet(imports, node.mod,
                      (IF DictHas(imports, node.mod)
                       THEN DictGet(imports, node.mod) ELSE <<>>) \o node.names)
         ELSE imports
    ELSE IF node.k = "import"
    THEN DictSet(imports, node.mod, <<Wild>>)
    ELSE imports

RECURSIVE ImportLoop(_, _)
ImportLoop(imports, nodes) ==
    IF nodes = <<>> THEN imports
    ELSE ImportLoop(ImportStep(imports, Head(nodes)), Tail(nodes))

parse_imports_with_names(f, ex, c) ==
    IF Parses(f, ex, c) THEN ImportLoop(<<>>, Walk(Body(f, c))) ELSE <<>>

(***************************************************************************)
(* extract_function_or_class and get_global_variables                      *)
(***************************************************************************)
None == [found |-> FALSE, code |-> EmptyStr]

\* lines[start:end]
Slice(lines, start, end) == SubSeq(lines, start + 1, end)

\* the definitions named name, in ast.walk order
Matches(nodes, name) ==
    SelectSeq(nodes, LAMBDA n : n.k = "def" /\ n.name = name)

extract_function_or_class(f, ex, c, name) ==
    IF ~Parses(f, ex, c) THEN None
    ELSE LET hits == Matches(Walk(Body(f, c)), name)
         IN  IF hits = <<>> THEN None
             ELSE [found |-> TRUE,
                   code |-> JoinLines(Slice(FileLines(f, c),
                                            hits[1].lineno - 1, hits[1].end_lineno))]

\* definitions taken for global-scope code as well
IsGlobalOrDef(n) == n.k \in {"import", "from", "assign", "def"}

\* the top-level nodes get_global_variables keeps
IsGlobal(n) == n.k \in {"import", "from", "assign"}

get_global_variables(f, ex, c) ==
    IF ~Parses(f, ex, c) THEN EmptyStr
    ELSE LET keep == SelectSeq(TopNodes(Body(f, c)), IsGlobal)
             globals_code ==
                 Flatten([i \in 1..Len(keep) |->
                             Slice(FileLines(f, c), keep[i].lineno - 1, keep[i].end_lineno)])
         IN  JoinLines(globals_code)

(***************************************************************************)
(* resolve_import_to_file                                                  *)
(***************************************************************************)
NoFile == ""

PySuffix == <<".", "p", "y">>

InitName == <<"_", "_", "i", "n", "i", "t", "_", "_", ".", "p", "y">>

\* the file of the tree at path p, NoFile when p does not exist
FileAt(p, ex) ==
    IF \E f \in ex : AbsPath(f) = p THEN CHOOSE f \in ex : AbsPath(f) = p ELSE NoFile

\* a resolver that falls back on a default module when nothing is found
ResolveWithFallback(import_name, ex) ==
    LET path == Replace(import_name, ".", "/")
        py_file == ProjectDir \o <<"/">> \o path \o PySuffix
        init_file == ProjectDir \o <<"/">> \o path \o <<"/">> \o InitName
    IN  IF FileAt(py_file, ex) # NoFile THEN FileAt(py_file, ex)
        ELSE IF FileAt(init_file, ex) # NoFile THEN FileAt(init_file, ex)
        ELSE IF "c" \in ex THEN "c" ELSE NoFile

resolve_import_to_file(import_name, ex) ==
    LET path == Replace(import_name, ".", "/")
        py_file == ProjectDir \o <<"/">> \o path \o PySuffix
        init_file == ProjectDir \o <<"/">> \o path \o <<"/">> \o InitName
    IN  IF FileAt(py_file, ex) # NoFile THEN FileAt(py_file, ex)
        ELSE FileAt(init_file, ex)

\* the modules the traversal loops skip
SkipList ==
    {<<"o", "s">>,
     <<"s", "y", "s">>,
     <<"r", "e">>,
     <<"c", "v", "2">>,
     <<"u", "u", "i", "d">>,
     <<"n", "u", "m", "p", "y">>,
     <<"t", "e", "n", "s", "o", "r", "f", "l", "o", "w">>,
     <<"P", "I", "L">>,
     <<"f", "l", "a", "s", "k">>,
     <<"u", "r", "l", "l", "i", "b">>,
     <<"j", "s", "o", "n">>,
     <<"t", "i", "m", "e">>,
     <<"g", "c">>,
     <<"i", "o">>,
     <<"p", "a", "d", "d", "l", "e", "o", "c", "r">>,
     <<"u", "l", "t", "r", "a", "l", "y", "t", "i", "c", "s">>,
     <<"t", "o", "r", "c", "h">>,
     <<"r", "e", "q", "u", "e", "s", "t", "s">>,
     <<"c", "e", "r", "t", "i", "f", "i">>,
     <<"u", "r", "l", "l", "i", "b", "3">>}

\* a comparison with the whole path instead of the substring test
ShouldExcludeExact(f, patterns) ==
    \E i \in 1..Len(patterns) : patterns[i] = AbsPath(f)

\* the exclusion check of the traversal loops
ShouldExclude(f, patterns) ==
    \E i \in 1..Len(patterns) : IsSubstring(patterns[i], AbsPath(f))

(***************************************************************************)
(* The two traversal loops.  A worklist item is the code's pair            *)
(* (file_path, names) with, as history, the module name of the import      *)
(* statement that appended it (<<>> for the seed).                         *)
(***************************************************************************)
Item(file, names, via) == [file |-> file, names |-> names, via |-> via]

Seed == <<Item(Entry, <<Wild>>, <<>>)>>

\* the content a read of file f returns: what an earlier read returned,
\* or any content the rest of the project's size allows
ReadChoices(f) ==
    IF f \in known \/ f \notin exists THEN {tree[f]} ELSE Contents(budget)

\* the first loop's list lacking a name the second loop's list has
DiscoverSkipListShort == SkipList \ {ModOs}

\* the skip list of discover_files
DiscoverSkipList == SkipList

\* discover_files: what the loop over imports.items() appends
RECURSIVE DiscoverSuccessors(_, _, _)
DiscoverSuccessors(imports, proc, ex) ==
    IF imports = <<>> THEN <<>>
    ELSE LET module == Head(imports).key
             names == Head(imports).val
             file_path == resolve_import_to_file(module, ex)
             more == DiscoverSuccessors(Tail(imports), proc, ex)
         IN  IF module \in DiscoverSkipList THEN more
             ELSE IF file_path # NoFile /\ file_path \notin proc
                  THEN <<Item(file_path, names, module)>> \o more
                  ELSE more

\* the loop without its skip-list test
RECURSIVE ExtractSuccessorsNoSkip(_, _, _)
ExtractSuccessorsNoSkip(imports, proc, ex) ==
    IF imports = <<>> THEN <<>>
    ELSE LET file_path == resolve_import_to_file(Head(imports).key, ex)
             more == ExtractSuccessorsNoSkip(Tail(imports), proc, ex)
         IN  IF file_path # NoFile /\ file_path \notin proc
             THEN <<Item(file_path, Head(imports).val, Head(imports).key)>> \o more
             ELSE more

\* extract_used_code: what the loop over imports.items() appends
RECURSIVE ExtractSuccessors(_, _, _)
ExtractSuccessors(imports, proc, ex) ==
    IF imports = <<>> THEN <<>>
    ELSE LET module == Head(imports).key
             names == Head(imports).val
             file_path == resolve_import_to_file(module, ex)
             more == ExtractSuccessors(Tail(imports), proc, ex)
         IN  IF module \in SkipList THEN more
             ELSE IF file_path # NoFile /\ file_path \notin proc
                  THEN <<Item(file_path, names, module)>> \o more
                  ELSE more

\* the loop ended by the first name that is not found
RECURSIVE NameLoopStopAtMiss(_, _, _, _, _)
NameLoopStopAtMiss(file_code_parts, f, ex, c, names) ==
    IF names = <<>> THEN file_code_parts
    ELSE LET code == extract_function_or_class(f, ex, c, Head(names))
         IN  IF Head(names) = Wild
             THEN NameLoopStopAtMiss(file_code_parts, f, ex, c, Tail(names))
             ELSE IF code.found /\ code.code # EmptyStr
                  THEN NameLoopStopAtMiss(Append(file_code_parts, StrCat(Newline, code.code)),
                                          f, ex, c, Tail(names))
                  ELSE file_code_parts

\* the loop over names_to_extract
RECURSIVE NameLoop(_, _, _, _, _)
NameLoop(file_code_parts, f, ex, c, names) ==
    IF names = <<>> THEN file_code_parts
    ELSE LET name == Head(names)
             code == extract_function_or_class(f, ex, c, name)
         IN  IF name = Wild THEN NameLoop(file_code_parts, f, ex, c, Tail(names))
             ELSE IF code.found /\ code.code # EmptyStr
                  THEN NameLoop(Append(file_code_parts, StrCat(Newline, code.code)),
                                f, ex, c, Tail(names))
                  ELSE NameLoop(file_code_parts, f, ex, c, Tail(names))

\* the text recorded for a file requested by name
PartialCode(f, ex, c, names) ==
    LET globals_code == get_global_variables(f, ex, c)
        file_code_parts == IF globals_code # EmptyStr THEN <<globals_code>> ELSE <<>>
    IN  Join(<<Blank, Blank, Blank>>, NameLoop(file_code_parts, f, ex, c, names))

\* whether the request is for the whole file
WholeFile(names) == Wild \in Range(names)

\* the whole-file branch joining file_code_parts with the content read
ExtractedTextWithGlobals(f, ex, c, names) ==
    IF WholeFile(names)
    THEN LET globals_code == get_global_variables(f, ex, c)
         IN  IF globals_code # EmptyStr
             THEN Join(<<Blank, Blank, Blank>>, <<globals_code, RawText(f, c)>>)
             ELSE RawText(f, c)
    ELSE PartialCode(f, ex, c, names)

\* the text recorded for a processed file
ExtractedText(f, ex, c, names) ==
    IF WholeFile(names) THEN RawText(f, c) ELSE PartialCode(f, ex, c, names)

\* the loops without their pop-time test
AlreadyProcessedNever(f, proc) == FALSE

\* the pop-time test of both loops
AlreadyProcessed(f, proc) == f \in proc

\* the file is not added to the set
MarkProcessedForgets(proc, f) == proc

\* processed.add(current_file)
MarkProcessed(proc, f) == proc \cup {f}

\* a stack instead of a queue: new items go to the front
PushFront(queue, new) == new \o queue

\* files_to_process.insert(0, item), once per new item
RECURSIVE PushEachFront(_, _)
PushEachFront(queue, new) ==
    IF new = <<>> THEN queue ELSE PushEachFront(<<Head(new)>> \o queue, Tail(new))

\* files_to_process.append, once per new item
Push(queue, new) == queue \o new

Learn(f, c) ==
    /\ known' = known \cup ({f} \cap exists)
    /\ tree' = [tree EXCEPT ![f] = c]
    /\ budget' = IF f \in known \/ f \notin exists THEN budget ELSE budget - Len(c.imps)

NoOutput == [opened |-> FALSE, total_files |-> 0, tree |-> <<>>, files |-> <<>>]

NoPrev ==
    [pc |-> "", out |-> NoOutput, enqueued |-> <<>>, extracted_code |-> <<>>,
     discovered_files |-> <<>>]

ExcludeChoices ==
    { <<>>,
      << <<"/", "a", ".">> >>,
      << <<"z", "z">>, <<"a">> >> }

Init ==
    /\ exclude_patterns \in ExcludeChoices
    /\ exists \in {Files, Files \ {Entry}}
    /\ known = {}
    /\ tree = [f \in Files |-> NoContent]
    /\ budget = MaxStmts
    /\ run = 1
    /\ pc = "discover"
    /\ files_to_process = Seed
    /\ processed = {}
    /\ discovered_files = <<>>
    /\ extracted_code = <<>>
    /\ out = NoOutput
    /\ enqueued = <<>>
    /\ touched = {}
    /\ requested = [f \in Files |-> <<>>]
    /\ prev = NoPrev

\* one iteration of the while loop of discover_files
DiscoverStep ==
    /\ pc = "discover"
    /\ files_to_process # <<>>
    /\ LET current_file == Head(files_to_process).file
           rest == Tail(files_to_process)
       IN  IF AlreadyProcessed(current_file, processed)
           THEN /\ files_to_process' = rest
                /\ UNCHANGED <<processed, discovered_files, known, tree, budget, touched>>
           ELSE IF ShouldExclude(current_file, exclude_patterns)
           THEN /\ files_to_process' = rest
                /\ processed' = MarkProcessed(processed, current_file)
                /\ UNCHANGED <<discovered_files, known, tree, budget, touched>>
           ELSE \E c \in ReadChoices(current_file) :
                /\ Learn(current_file, c)
                /\ processed' = MarkProcessed(processed, current_file)
                /\ discovered_files' = Append(discovered_files, current_file)
                /\ touched' = touched \cup {current_file}
                /\ files_to_process' =
                       Push(rest, DiscoverSuccessors(
                                      parse_imports_with_names(current_file, exists, c),
                                      processed', exists))
    /\ UNCHANGED <<exclude_patterns, exists, run, pc, extracted_code, out, enqueued,
                   requested, prev>>

\* discover_files returns; the second loop's state is set up
DiscoverReturn ==
    /\ pc = "discover"
    /\ files_to_process = <<>>
    /\ pc' = "extract"
    /\ files_to_process' = Seed
    /\ processed' = {}
    /\ extracted_code' = <<>>
    /\ enqueued' = <<Entry>>
    /\ UNCHANGED <<exclude_patterns, exists, known, tree, budget, run,
                   discovered_files, out, touched, requested, prev>>

\* one iteration of the while loop of extract_used_code
ExtractStep ==
    /\ pc = "extract"
    /\ files_to_process # <<>>
    /\ LET current_file == Head(files_to_process).file
           names_to_extract == Head(files_to_process).names
           rest == Tail(files_to_process)
       IN  IF AlreadyProcessed(current_file, processed)
           THEN /\ files_to_process' = rest
                /\ UNCHANGED <<processed, extracted_code, known, tree, budget,
                               touched, enqueued, requested, pc>>
           ELSE IF ShouldExclude(current_file, exclude_patterns)
           THEN /\ files_to_process' = rest
                /\ processed' = MarkProcessed(processed, current_file)
                /\ UNCHANGED <<extracted_code, known, tree, budget, touched, enqueued,
                               requested, pc>>
           ELSE \E c \in ReadChoices(current_file) :
                LET imports == parse_imports_with_names(current_file, exists, c)
                    new == ExtractSuccessors(imports, processed', exists)
                IN  /\ Learn(current_file, c)
                    /\ processed' = MarkProcessed(processed, current_file)
                    /\ touched' = touched \cup {current_file}
                    /\ IF WholeFile(names_to_extract) /\ current_file \notin exists
                       THEN \* open(current_file) raises: the run ends here
                            /\ pc' = "aborted"
                            /\ files_to_process' = rest
                            /\ UNCHANGED <<extracted_code, enqueued, requested>>
                       ELSE /\ pc' = pc
                            /\ extracted_code' =
                                   DictSet(extracted_code, current_file,
                                           ExtractedText(current_file, exists, c,
                                                         names_to_extract))
                            /\ requested' = [requested EXCEPT ![current_file] = names_to_extract]
                            /\ files_to_process' = Push(rest, new)
                            /\ enqueued' = enqueued \o [i \in 1..Len(new) |-> new[i].file]
    /\ UNCHANGED <<exclude_patterns, exists, run, discovered_files, out, prev>>

(***************************************************************************)
(* The directory tree of the report: build_tree_structure and write_tree.  *)
(* A tree is an insertion-ordered dict from a name to [is_file, children]. *)
(***************************************************************************)
\* ord(ch), for the characters of the project's paths
CodePoint(ch) ==
    CASE ch = "." -> 46
      [] ch = "_" -> 95
      [] ch = "a" -> 97
      [] ch = "b" -> 98
      [] ch = "c" -> 99
      [] ch = "i" -> 105
      [] ch = "m" -> 109
      [] ch = "n" -> 110
      [] ch = "o" -> 111
      [] ch = "p" -> 112
      [] ch = "s" -> 115
      [] ch = "t" -> 116
      [] ch = "y" -> 121

\* s < t on str: the first character that differs decides, a proper
\* prefix comes first
StrLess(s, t) ==
    \E k \in 1..(Len(t)) :
        /\ k <= Len(s) + 1
        /\ \A i \in 1..(k - 1) : s[i] = t[i]
        /\ k <= Len(s) => CodePoint(s[k]) < CodePoint(t[k])

\* rel_path.parts
RECURSIVE PartsOf(_)
PartsOf(path) ==
    IF "/" \notin Range(path) THEN <<path>>
    ELSE LET i == CHOOSE k \in 1..Len(path) :
                      path[k] = "/" /\ \A l \in 1..(k - 1) : path[l] # "/"
         IN  <<SubSeq(path, 1, i - 1)>> \o PartsOf(SubSeq(path, i + 1, Len(path)))

\* the inner loop of build_tree_structure, from part i of parts on
RECURSIVE AddParts(_, _)
AddParts(current, parts) ==
    IF parts = <<>> THEN current
    ELSE LET part == Head(parts)
             is_file == Len(parts) = 1
             node == IF DictHas(current, part) THEN DictGet(current, part)
                     ELSE [is_file |-> is_file, children |-> <<>>]
         IN  DictSet(current, part,
                     [is_file |-> node.is_file,
                      children |-> AddParts(node.children, Tail(parts))])

RECURSIVE TreeLoop(_, _)
\* the loop of build_tree_structure over files
TreeLoop(tree_dict, files) ==
    IF files = <<>> THEN tree_dict
    ELSE TreeLoop(AddParts(tree_dict, PartsOf(RelPath(Head(files)))), Tail(files))

build_tree_structure(files) == TreeLoop(<<>>, files)

\* the sort key (not is_file, name) of x is less than that of y
KeyLess(x, y) ==
    \/ x.val.is_file /\ ~y.val.is_file
    \/ x.val.is_file = y.val.is_file /\ StrLess(x.key, y.key)

\* x put into the sorted sequence before the first item with a larger key
InsertSorted(sorted, x) ==
    LET n == Cardinality({i \in 1..Len(sorted) : ~KeyLess(x, sorted[i])})
    IN  SubSeq(sorted, 1, n) \o <<x>> \o SubSeq(sorted, n + 1, Len(sorted))

RECURSIVE Sorted(_)
\* sorted(items, key=lambda x: (not x[1]['_is_file'], x[0]))
Sorted(items) ==
    IF items = <<>> THEN <<>> ELSE InsertSorted(Sorted(Front(items)), Last(items))

\* the line write_tree writes for one item
TreeLine(prefix, is_last_item, item) ==
    [prefix |-> prefix,
     connector |-> IF is_last_item THEN "last" ELSE "tee",
     is_file |-> item.val.is_file,
     name |-> item.key]

RECURSIVE write_tree(_, _)
\* the lines write_tree writes for tree_dict, in order
write_tree(tree_dict, prefix) ==
    LET items == Sorted(tree_dict)
    IN  Flatten([idx \in 1..Len(items) |->
            LET is_last_item == idx = Len(items)
                extension == IF is_last_item THEN "space" ELSE "bar"
            IN  IF items[idx].val.is_file
                THEN <<TreeLine(prefix, is_last_item, items[idx])>>
                ELSE <<TreeLine(prefix, is_last_item, items[idx])>>
                     \o write_tree(items[idx].val.children, Append(prefix, extension))])

\* the entry written to the output file for one extracted file
OutEntry(e) == [file |-> e.key, lines |-> Len(SplitLines(e.val)), code |-> e.val]

\* the loop has ended: the output file is opened and written
WriteOutput ==
    /\ pc = "extract"
    /\ files_to_process = <<>>
    /\ pc' = "done"
    /\ out' = [opened |-> TRUE,
               total_files |-> Len(extracted_code),
               tree |-> write_tree(build_tree_structure(Keys(extracted_code)), <<>>),
               files |-> [i \in 1..Len(extracted_code) |-> OutEntry(extracted_code[i])]]
    /\ UNCHANGED <<exclude_patterns, exists, known, tree, budget, run,
                   files_to_process, processed, discovered_files, extracted_code,
                   enqueued, touched, requested, prev>>

\* processed kept in a module-level set that outlives the invocation
RerunKeepsProcessed ==
    /\ pc \in {"done", "aborted"}
    /\ run = 1
    /\ run' = 2
    /\ prev' = [pc |-> pc, out |-> out, enqueued |-> enqueued,
                extracted_code |-> extracted_code, discovered_files |-> discovered_files]
    /\ pc' = "discover"
    /\ files_to_process' = Seed
    /\ discovered_files' = <<>>
    /\ extracted_code' = <<>>
    /\ out' = NoOutput
    /\ enqueued' = <<>>
    /\ requested' = [f \in Files |-> <<>>]
    /\ UNCHANGED <<exclude_patterns, exists, known, tree, budget, touched, processed>>

\* extract_used_code is invoked again on the unchanged tree
Rerun ==
    /\ pc \in {"done", "aborted"}
    /\ run = 1
    /\ run' = 2
    /\ prev' = [pc |-> pc, out |-> out, enqueued |-> enqueued,
                extracted_code |-> extracted_code, discovered_files |-> discovered_files]
    /\ pc' = "discover"
    /\ files_to_process' = Seed
    /\ processed' = {}
    /\ discovered_files' = <<>>
    /\ extracted_code' = <<>>
    /\ out' = NoOutput
    /\ enqueued' = <<>>
    /\ requested' = [f \in Files |-> <<>>]
    /\ UNCHANGED <<exclude_patterns, exists, known, tree, budget, touched>>

Next == DiscoverStep \/ DiscoverReturn \/ ExtractStep \/ WriteOutput

Spec == Init /\ [][Next]_vars

NextRerun == Next \/ Rerun

SpecRerun == Init /\ [][NextRerun]_vars

(***************************************************************************)
(* What the claims speak about, read off the project tree itself.          *)
(***************************************************************************)
\* the path of f contains one of the exclude patterns
Excluded(f) ==
    \E i \in 1..Len(exclude_patterns) : IsSubstring(exclude_patterns[i], AbsPath(f))

\* the import statements of f, as far as the tree has been read
ImportStmts(f) ==
    IF f \in exists /\ tree[f].ok
    THEN SelectSeq(tree[f].imps, LAMBDA st : st.k \in {"import", "from"})
    ELSE <<>>

\* the files the import statements sts lead to
Targets(sts) ==
    {resolve_import_to_file(st.mod, exists) :
        st \in {x \in Range(sts) : x.mod \notin SkipList}} \ {NoFile}

\* the files the import statements of f lead to
EdgeTargets(f) == Targets(ImportStmts(f))

\* the files the plain `import X` statements of f lead to
WildTargets(f) == Targets(SelectSeq(ImportStmts(f), LAMBDA st : st.k = "import"))

RECURSIVE ReachFrom(_)
ReachFrom(S) ==
    LET T == S \cup {g \in UNION {EdgeTargets(f) : f \in S} : ~Excluded(g)}
    IN  IF T = S THEN S ELSE ReachFrom(T)

\* the files reachable from the entry through resolvable, non-skip-listed
\* import edges between non-excluded files
Reachable == IF Excluded(Entry) THEN {} ELSE ReachFrom({Entry})

RECURSIVE Dedup(_)
\* the first occurrences of s, in order
Dedup(s) ==
    IF s = <<>> THEN <<>>
    ELSE LET d == Dedup(Front(s))
         IN  IF Last(s) \in Range(d) THEN d ELSE Append(d, Last(s))

Distinct(s) == \A i, j \in 1..Len(s) : s[i] = s[j] => i = j

\* the second loop has run to its end
LoopEnded == pc = "done" \/ (pc = "extract" /\ files_to_process = <<>>)

\* C1: when the traversal loop of extract_used_code ends, the keys of
\* extracted_code are exactly the files reachable from the entry through
\* resolvable, non-skip-listed, non-excluded import edges, each once, in the
\* order in which the files were first appended to the worklist.
C1_ReachableOnceInDiscoveryOrder ==
    LoopEnded =>
        /\ Range(Keys(extracted_code)) = Reachable
        /\ Distinct(Keys(extracted_code))
        /\ Keys(extracted_code) = SelectSeq(Dedup(enqueued), LAMBDA f : ~Excluded(f))

\* C1 happens: several files extracted, one file appended to the worklist
\* twice, and an excluded file met on the way
C1_Witness ==
    /\ pc = "done"
    /\ Len(extracted_code) >= 2
    /\ ~Distinct(enqueued)
    /\ \E f \in Range(enqueued) : Excluded(f)

\* C2: if a file with an entry in extracted_code contains a plain
\* `import X` that resolves to another file F, then F's final extraction
\* is the whole file, whatever `from X import name` edges to F exist.
C2_WildcardPrecedence ==
    LoopEnded =>
        \A F \in Range(Keys(extracted_code)) :
            (\E g \in Range(Keys(extracted_code)) \ {F} : F \in WildTargets(g))
            => DictGet(extracted_code, F) = RawText(F, tree[F])

IsPrefix(s, t) == Len(s) <= Len(t) /\ s = SubSeq(t, 1, Len(s))

\* C3: the files of the manifest pass and the files of the extraction pass
\* are the same, in the same order: while the second loop runs its keys
\* are a prefix of discover_files' result, and equal to it when it ends.
C3_PassesAgree ==
    /\ pc \in {"extract", "done"} => IsPrefix(Keys(extracted_code), discovered_files)
    /\ LoopEnded => Keys(extracted_code) = discovered_files

\* C3 happens: both passes met a skip-listed import and an excluded file,
\* and the output holds several files
C3_Witness ==
    /\ pc = "done"
    /\ Len(discovered_files) >= 2
    /\ \E f \in Range(discovered_files) :
          \E st \in Range(ImportStmts(f)) : st.mod \in SkipList
    /\ \E f \in processed : Excluded(f)

\* C4: a file whose path contains an exclude pattern is never handed to
\* the import parser or the extractors and has no entry in the manifest
\* list, in extracted_code or in the output file.
C4_Exclusion ==
    \A f \in Files :
        Excluded(f) =>
            /\ f \notin touched
            /\ f \notin Range(discovered_files)
            /\ ~DictHas(extracted_code, f)
            /\ \A i \in 1..Len(out.files) : out.files[i].file # f

\* C4 happens: an excluded file other than the entry was imported by an
\* extracted file and taken off the worklist, and the output was written
C4_Witness ==
    /\ pc = "done"
    /\ out.total_files >= 1
    /\ \E f \in processed \ {Entry} :
          Excluded(f) /\ \E g \in Range(Keys(extracted_code)) : f \in EdgeTargets(g)

\* the module names the project's import statements use
Modules == {st.mod : st \in ImportVocab}

\* module name m names the existing file f: f is m with its dots turned
\* into slashes, as a .py file or as a package's __init__.py
Names(m, f) ==
    /\ f \in exists
    /\ RelPath(f) \in {Replace(m, ".", "/") \o PySuffix,
                       Replace(m, ".", "/") \o <<"/">> \o InitName}

\* files other than the entry that only skip-listed module names name
SkipOnlyFiles ==
    {f \in Files \ {Entry} : \A m \in Modules : Names(m, f) => m \in SkipList}

\* C6: no worklist item, in either pass, comes from an import of a
\* skip-listed module, and a file only such imports lead to is never
\* taken off the worklist nor handed to the parser or the extractors.
C6_SkipList ==
    /\ \A i \in 1..Len(files_to_process) : files_to_process[i].via \notin SkipList
    /\ \A f \in processed \cup touched : f \notin SkipOnlyFiles

\* C6 happens: an extracted file imports the skip-listed module os while
\* os.py exists under the project root
C6_Witness ==
    /\ pc = "done"
    /\ resolve_import_to_file(ModOs, exists) = "os"
    /\ ModOs \in SkipList
    /\ \E f \in Range(Keys(extracted_code)) : Import(ModOs) \in Range(ImportStmts(f))

\* C7: with an entry file that does not exist the output file is never
\* opened and nothing is written to it.
C7_MissingEntryNoOutput ==
    Entry \notin exists => ~out.opened /\ out.files = <<>>

\* the top-level statements of f, as far as f parses
Statements(f) == IF f \in exists /\ tree[f].ok THEN Body(f, tree[f]) ELSE <<>>

\* the source lines of top-level statement i of f
LinesOf(f, i) == Range(StmtLines(f, Statements(f)[i], i))

\* the top-level statements of f that define name
TopDefs(f, name) ==
    {i \in 1..Len(Statements(f)) :
        Statements(f)[i].k = "def" /\ Statements(f)[i].name = name}

\* the top-level statements of f that have a definition of name nested in them
NestedDefs(f, name) ==
    {i \in 1..Len(Statements(f)) : name \in Range(Statements(f)[i].inner)}

Min(S) == CHOOSE x \in S : \A y \in S : x <= y

\* the source lines of the definition of name in f that a search of the
\* top level first, of the nested definitions next, finds
BodyOf(f, name) ==
    IF TopDefs(f, name) # {} THEN LinesOf(f, Min(TopDefs(f, name)))
    ELSE IF NestedDefs(f, name) # {}
    THEN LET i == Min(NestedDefs(f, name))
             j == Min({k \in 1..Len(Statements(f)[i].inner) : Statements(f)[i].inner[k] = name})
         IN  {<<f, i, j>>}
    ELSE {}

\* the lines of the top-level imports and assignments of f, in source order
Prologue(f) ==
    Flatten([i \in 1..Len(Statements(f)) |->
                IF Statements(f)[i].k \in {"import", "from", "assign"}
                THEN StmtLines(f, Statements(f)[i], i) ELSE <<>>])

\* every import statement of an extracted file that leads to X is a
\* `from ... import foo`
RequestedOnlyFoo(X) ==
    \A g \in Range(Keys(extracted_code)) :
        \A st \in Range(ImportStmts(g)) :
            (st.mod \notin SkipList /\ resolve_import_to_file(st.mod, exists) = X)
            => st.k = "from" /\ Range(st.names) = {"foo"}

\* X is an extracted file other than the entry, requested only for foo,
\* with top-level definitions of foo and of bar
PartialCase(X) ==
    /\ X # Entry
    /\ DictHas(extracted_code, X)
    /\ RequestedOnlyFoo(X)
    /\ TopDefs(X, "foo") # {}
    /\ TopDefs(X, "bar") # {}

\* C5: a file X requested only by `from X import foo`, which defines foo
\* and a separate top-level bar, is recorded as its global-scope prologue
\* followed by foo's body and blank lines only; no line of bar is in it.
C5_PartialExtraction ==
    \A X \in Files :
        PartialCase(X) =>
            LET text == DictGet(extracted_code, X)
            IN  /\ IsPrefix(Prologue(X), text)
                /\ Range(text) \ {Blank} = Range(Prologue(X)) \cup BodyOf(X, "foo")
                /\ \A j \in TopDefs(X, "bar") : LinesOf(X, j) \cap Range(text) = {}

\* C5 happens: such a file, with import statements of its own in its
\* prologue, is in the written output
C5_Witness ==
    /\ pc = "done"
    /\ \E X \in Files : PartialCase(X) /\ Len(Prologue(X)) >= 2

\* X was extracted by name and one of the names has no definition in X
MissCase(X) ==
    /\ DictHas(extracted_code, X)
    /\ ~WholeFile(requested[X])
    /\ \E n \in Range(requested[X]) : BodyOf(X, n) = {}

\* C8: a requested name without a definition in the file does not end the
\* run: the file's entry holds the prologue and the bodies of the requested
\* names that were found, and every file appended to the worklist is still
\* taken off it before the loop ends.
C8_GracefulMiss ==
    \A X \in Files :
        MissCase(X) =>
            LET text == DictGet(extracted_code, X)
            IN  /\ pc # "aborted"
                /\ IsPrefix(Prologue(X), text)
                /\ Range(text) \ {Blank} =
                       Range(Prologue(X)) \cup UNION {BodyOf(X, n) : n \in Range(requested[X])}
                /\ LoopEnded => Range(enqueued) \subseteq processed

\* C8 happens: a file was extracted with one name missing and another
\* found, and a file behind it on the worklist was extracted after it
C8_Witness ==
    /\ pc = "done"
    /\ \E i \in 1..Len(extracted_code) :
          /\ i < Len(extracted_code)
          /\ MissCase(extracted_code[i].key)
          /\ \E n \in Range(requested[extracted_code[i].key]) :
                BodyOf(extracted_code[i].key, n) # {}

Visitable ==
    LET R == Reachable
    IN  {Entry} \cup R \cup UNION {EdgeTargets(f) : f \in R}

Unprocessed == Cardinality(Files \ processed)

\* an iteration of either loop adds a file to processed, or leaves
\* processed alone and shortens the worklist
LoopStepDecreases ==
    (pc \in {"discover", "extract"} /\ pc' = pc) =>
        \/ Unprocessed' < Unprocessed
        \/ Unprocessed' = Unprocessed /\ Len(files_to_process') < Len(files_to_process)

\* C10: the worklist loops terminate on every project, cyclic and self
\* imports included: each iteration decreases a well-founded measure (the
\* number of files not in processed, then the length of the worklist), and
\* when the second loop has emptied the worklist processed holds exactly
\* the files reachable through resolvable, non-skip-listed import edges
\* from non-excluded files.
C10_Termination ==
    /\ [][LoopStepDecreases]_vars
    /\ [](LoopEnded => processed = Visitable)

\* C10 happens: the loop has ended on a project with an import cycle (a
\* file imports itself, or two files import each other)
C10_Witness ==
    /\ pc = "done"
    /\ \E f \in processed : \E g \in EdgeTargets(f) : f \in EdgeTargets(g)

\* the worklist items that are requests for file f
Pending(f) == SelectSeq(files_to_process, LAMBDA it : it.file = f)

\* the request names covers the request other: it has the wildcard, or
\* every name of other
Covers(names, other) == WholeFile(names) \/ Range(other) \subseteq Range(names)

\* C11: while the second loop runs the worklist holds at most one pending
\* request per file, and the request a file was extracted with covers every
\* request for it that had been appended before it was taken off the
\* worklist (the requests for it still on the worklist).
C11_RequestMerging ==
    pc = "extract" =>
        \A f \in Files :
            /\ Len(Pending(f)) <= 1
            /\ DictHas(extracted_code, f) =>
                   \A i \in 1..Len(Pending(f)) : Covers(requested[f], Pending(f)[i].names)

\* the number of requests for file f on the worklist queue
PendingIn(queue, f) == Len(SelectSeq(queue, LAMBDA it : it.file = f))

\* a step of the second loop leaves every file of processed in processed,
\* appends no request for it, does not extract it again and leaves its
\* entry in extracted_code as it is
VisitedUntouched ==
    pc = "extract" =>
        \A f \in processed :
            /\ f \in processed'
            /\ PendingIn(files_to_process', f) <= PendingIn(files_to_process, f)
            /\ requested'[f] = requested[f]
            /\ DictHas(extracted_code, f) =>
                   /\ DictHas(extracted_code', f)
                   /\ DictGet(extracted_code', f) = DictGet(extracted_code, f)

\* C12: once a file is in processed it is never appended to the worklist
\* again and never extracted again, and its entry in extracted_code is left
\* unchanged by every later step, also when a later request for it is
\* broader or the wildcard.
C12_VisitedFrame == [][VisitedUntouched]_vars

\* C12 happens: the request at the head of the worklist is the wildcard
\* for a file that was extracted by name
C12_Witness ==
    /\ pc = "extract"
    /\ files_to_process # <<>>
    /\ LET f == Head(files_to_process).file
       IN  /\ f \in processed
           /\ DictHas(extracted_code, f)
           /\ ~WholeFile(requested[f])
           /\ WholeFile(Head(files_to_process).names)

\* f has been read and its syntax cannot be parsed
Unparsable(f) == f \in known /\ ~tree[f].ok

\* a loop iteration that handles an unparsable file appends nothing to the
\* worklist and does not end the run
BrokenStep ==
    (/\ pc \in {"discover", "extract"}
     /\ pc' = pc
     /\ files_to_process # <<>>
     /\ Head(files_to_process).file \notin processed
     /\ Head(files_to_process).file \in known'
     /\ ~tree'[Head(files_to_process).file].ok)
    => /\ files_to_process' = Tail(files_to_process)
       /\ enqueued' = enqueued

\* an unparsable file the second loop has handled has an entry: the raw
\* text for a whole-file request, the empty text for a request by name;
\* the run is not aborted and the worklist is worked off
BrokenState ==
    /\ (\E f \in Files : Unparsable(f)) =>
           /\ pc # "aborted"
           /\ LoopEnded => Range(enqueued) \subseteq processed
    /\ \A f \in Files :
           (Unparsable(f) /\ pc \in {"extract", "done"} /\ f \in processed /\ ~Excluded(f))
           => /\ parse_imports_with_names(f, exists, tree[f]) = <<>>
              /\ DictHas(extracted_code, f)
              /\ DictGet(extracted_code, f) =
                     IF WholeFile(requested[f]) THEN RawText(f, tree[f]) ELSE EmptyStr

\* C13: a file whose syntax cannot be parsed does not end the run: the
\* import parser returns the empty mapping for it, the iteration that
\* handles it appends nothing to the worklist, the file still gets an entry
\* (its raw text for a whole-file request, the empty text for a request by
\* name), and the rest of the worklist is still processed.
C13_ParseFailure == [][BrokenStep]_vars /\ []BrokenState

\* C13 happens: an unparsable file holding an import of a file nobody else
\* imports was requested by name, and a file behind it on the worklist was
\* extracted after it
C13_Witness ==
    /\ pc = "done"
    /\ \E i \in 1..Len(extracted_code) :
          LET f == extracted_code[i].key
          IN  /\ i < Len(extracted_code)
              /\ Unparsable(f)
              /\ ~WholeFile(requested[f])
              /\ Targets(tree[f].imps) \ processed # {}

\* g is a non-excluded file with an entry, holding an import statement of
\* a module that is not skip-listed and names f
ImportedBy(f, g) ==
    /\ DictHas(extracted_code, g)
    /\ ~Excluded(g)
    /\ \E st \in Range(ImportStmts(g)) : st.mod \notin SkipList /\ Names(st.mod, f)

\* C14: at every point of the second loop every file with an entry in
\* extracted_code is the entry file or is named by a non-skip-listed import
\* of another non-excluded file whose entry was recorded before it, and
\* every request on the worklist is for the entry file or for an existing
\* file named by such an import: a module that resolves to no file, and a
\* file only excluded files lead to, is never appended or extracted.
C14_SoundOutputSet ==
    pc \in {"extract", "done", "aborted"} =>
        /\ \A i \in 1..Len(extracted_code) :
              \/ extracted_code[i].key = Entry
              \/ \E j \in 1..(i - 1) :
                    /\ extracted_code[j].key # extracted_code[i].key
                    /\ ImportedBy(extracted_code[i].key, extracted_code[j].key)
        /\ \A i \in 1..Len(files_to_process) :
              \/ files_to_process[i] \in Range(Seed)
              \/ /\ Names(files_to_process[i].via, files_to_process[i].file)
                 /\ \E g \in Files : ImportedBy(files_to_process[i].file, g)
        /\ Range(enqueued) \subseteq exists \cup {Entry}

\* C14 happens: the output was written for a project in which an extracted
\* file imports a module that resolves to no file and an excluded file was
\* taken off the worklist
C14_Witness ==
    /\ pc = "done"
    /\ Len(extracted_code) >= 2
    /\ \E g \in Range(Keys(extracted_code)) :
          \E st \in Range(ImportStmts(g)) :
              st.mod \notin SkipList /\ \A f \in Files : ~Names(st.mod, f)
    /\ \E f \in processed : Excluded(f)

\* the source lines, in order, of the definition of name in f that a
\* search of the top level first, of the nested definitions next, finds
BodyLines(f, name) ==
    SelectSeq(Flatten([i \in 1..Len(Statements(f)) |-> StmtLines(f, Statements(f)[i], i)]),
              LAMBDA l : l \in BodyOf(f, name))

\* the lines other than empty lines of a text, in order
NonBlank(text) == SelectSeq(text, LAMBDA l : l # Blank)

\* C15: the text recorded for a file requested by name is its global-scope
\* prologue followed by the bodies of the requested names that were found,
\* one body per distinct name, in the order the names were first requested.
C15_PartialOrderOnce ==
    \A X \in Files :
        (DictHas(extracted_code, X) /\ ~WholeFile(requested[X])) =>
            NonBlank(DictGet(extracted_code, X)) =
                Prologue(X) \o
                Flatten([i \in 1..Len(Dedup(requested[X])) |->
                            BodyLines(X, Dedup(requested[X])[i])])

\* f holds `import M` at statement i and `from M import ...` at statement j
ImportAndFrom(f, M, i, j) ==
    /\ i \in 1..Len(ImportStmts(f))
    /\ j \in 1..Len(ImportStmts(f))
    /\ ImportStmts(f)[i] = Import(M)
    /\ ImportStmts(f)[j].k = "from"
    /\ ImportStmts(f)[j].mod = M

\* the modules f holds both a plain import and a `from M import ...` of
ImportedBothWays(f) ==
    LET sts == Range(ImportStmts(f))
    IN  {st.mod : st \in {x \in sts : x.k = "import"}}
        \cap {st.mod : st \in {x \in sts : x.k = "from"}}

\* C16: for a file that holds both `import M` and `from M import a`, in
\* either order, the import parser returns a request for M that contains
\* the wildcard; when the file is the entry and M resolves to a file that
\* gets extracted, that file is requested and recorded as a whole file.
C16_ParserWildcardDominates ==
    \A f \in touched : \A M \in ImportedBothWays(f) :
            LET imports == parse_imports_with_names(f, exists, tree[f])
                X == resolve_import_to_file(M, exists)
            IN  /\ DictHas(imports, M)
                /\ Wild \in Range(DictGet(imports, M))
                /\ (f = Entry /\ M \notin SkipList /\ X # Entry /\ DictHas(extracted_code, X))
                   => /\ WholeFile(requested[X])
                      /\ DictGet(extracted_code, X) = RawText(X, tree[X])

\* C16 happens: the entry file holds `from M import a`, `import M` and
\* `from M import a` again, so both statement orders, and M's file is in
\* the written output
C16_Witness ==
    /\ pc = "done"
    /\ \E M \in Modules :
          /\ DictHas(extracted_code, resolve_import_to_file(M, exists))
          /\ \E i, j, k \in 1..Len(ImportStmts(Entry)) :
                /\ j < i
                /\ i < k
                /\ ImportAndFrom(Entry, M, i, j)
                /\ ImportAndFrom(Entry, M, i, k)

\* every source line of f, in file order, whether or not f parses
AllLines(f) ==
    LET body == tree[f].imps \o Layout(f)
    IN  Flatten([i \in 1..Len(body) |-> StmtLines(f, body[i], i)])

\* X has an entry that was extracted with a request holding the wildcard
WholeCase(X) == DictHas(extracted_code, X) /\ WholeFile(requested[X])

\* C17: the text recorded for a file whose request holds the wildcard is
\* the file's raw content: every source line once, in file order, each
\* ended by a newline; the prologue is not put in front of it and no
\* symbol body behind it.
C17_WholeFileIsRaw ==
    \A X \in Files :
        WholeCase(X) =>
            LET text == DictGet(extracted_code, X)
            IN  /\ text = AllLines(X) \o <<Blank>>
                /\ Distinct(NonBlank(text))
                /\ Len(SplitLines(text)) = Len(AllLines(X))

\* C17 happens: a file other than the entry, with a prologue that is not
\* empty and a definition of a name its request lists next to the
\* wildcard, is in the written output as a whole file
C17_Witness ==
    /\ pc = "done"
    /\ \E X \in Files \ {Entry} :
          /\ WholeCase(X)
          /\ Prologue(X) # <<>>
          /\ \E n \in Range(requested[X]) : n # Wild /\ BodyOf(X, n) # {}

\* the non-excluded files that the non-skip-listed import statements of
\* the files of S name
Successors(S) ==
    LET mods == UNION {{st.mod : st \in Range(ImportStmts(g))} : g \in S} \ SkipList
    IN  {f \in Files : ~Excluded(f) /\ \E m \in mods : Names(m, f)}

\* the marker for a file no chain of edges leads to
Unreached == Cardinality(Files)

\* the n-th level is frontier, seen the files of the levels below, and
\* level the levels found so far: the level of every file
RECURSIVE Levels(_, _, _, _)
Levels(frontier, seen, n, level) ==
    IF frontier = {} THEN level
    ELSE Levels(Successors(frontier) \ (seen \cup frontier), seen \cup frontier, n + 1,
                [f \in Files |-> IF f \in frontier THEN n ELSE level[f]])

\* the import distance of every file: the length of the shortest chain of
\* resolvable, non-skip-listed edges between non-excluded files from the
\* entry to it
Distances ==
    Levels({Entry} \ {g \in Files : Excluded(g)}, {}, 0, [f \in Files |-> Unreached])

Distance(f) == Distances[f]

\* C18: the worklist is first-in-first-out, so when the second loop has
\* ended the import distance of the files of extracted_code, in the order
\* of their entries, never decreases, and every one of them is reached.
C18_BreadthFirst ==
    LoopEnded =>
        LET distance == Distances
        IN  /\ \A i \in 1..Len(extracted_code) : distance[extracted_code[i].key] < Unreached
            /\ \A i \in 1..(Len(extracted_code) - 1) :
                  distance[extracted_code[i].key] <= distance[extracted_code[i + 1].key]

\* C18 happens: the written output holds two files at distance 1 and,
\* behind them, a file at distance 2
C18_Witness ==
    /\ pc = "done"
    /\ \E i, j, k \in 1..Len(extracted_code) :
          /\ i < j
          /\ j < k
          /\ Distance(extracted_code[i].key) = 1
          /\ Distance(extracted_code[j].key) = 1
          /\ Distance(extracted_code[k].key) = 2

\* lines i and j of the written tree are children of the same directory
Siblings(i, j) ==
    /\ i < j
    /\ Len(out.tree[i].prefix) = Len(out.tree[j].prefix)
    /\ \A k \in i..j : Len(out.tree[k].prefix) >= Len(out.tree[i].prefix)

\* C19: in the tree written to the output file the children of every
\* directory are listed directories first, then files, alphabetically by
\* name within each group.
C19_DirectoriesFirst ==
    pc = "done" =>
        \A i, j \in 1..Len(out.tree) :
            Siblings(i, j) =>
                /\ ~(out.tree[i].is_file /\ ~out.tree[j].is_file)
                /\ out.tree[i].is_file = out.tree[j].is_file
                   => StrLess(out.tree[i].name, out.tree[j].name)

=============================================================================
